---------------------------- MODULE Spec2Model ----------------------------
(***************************************************************************)
(* A model of CVE-2024-6387_Check.py: the expansion of the command-line    *)
(* targets, the thread pool that runs one check_vulnerability call per     *)
(* (address, port) pair, the banner classification, the LoginGraceTime     *)
(* probe, the shared progress counter and the aggregation of the result    *)
(* queue.                                                                  *)
(*                                                                         *)
(* Text is modelled as a sequence of one-character strings, so that        *)
(* Python's `in` (substring containment), `==` and str.strip() are         *)
(* computed character by character, as the interpreter computes them.      *)
(***************************************************************************)
EXTENDS Integers, Sequences, FiniteSets

\* ------------------------------------------------------------------ text

\* str.strip() with no argument removes these characters from both ends.
Whitespace == {" ", "\n", "\r", "\t"}

\* A byte that bytes.decode(errors='ignore') drops.
BadByte == "?"

\* `sub in s` for two Python strings.
Contains(sub, s) ==
    \E i \in 0..(Len(s) - Len(sub)) : SubSeq(s, i + 1, i + Len(sub)) = sub

\* s.strip()
strip(s) ==
    LET keep == {i \in 1..Len(s) : s[i] \notin Whitespace}
    IN  IF keep = {} THEN <<>>
        ELSE LET lo == CHOOSE i \in keep : \A j \in keep : i <= j
                 hi == CHOOSE i \in keep : \A j \in keep : j <= i
             IN  SubSeq(s, lo, hi)

\* data.decode(errors='ignore'): undecodable bytes are dropped.
decode(data) == SelectSeq(data, LAMBDA c : c # BadByte)

\* sock.recv(1024).decode(errors='ignore').strip()
recv_text(data) == strip(decode(data))

\* ---------------------------------------------------------- literal text

sSSH20 == <<"S","S","H","-","2",".","0">>
sOpenSSH == sSSH20 \o <<"-","O","p","e","n","S","S","H">>
sOpenSSH_ == sOpenSSH \o <<"_">>
sP1 == <<"p","1">>
sUbuntu == <<" ","U","b","u","n","t","u","-">>
sDebian == <<" ","D","e","b","i","a","n","-">>
sFreeBSD == <<" ","F","r","e","e","B","S","D","-","2","0","2","4","0","7","0","1">>

\* 'SSH-2.0-OpenSSH_' followed by the version text v
V(v) == sOpenSSH_ \o v

vulnerable_versions ==
    << V(<<"1">>), V(<<"2">>), V(<<"3">>),
       V(<<"4",".","0">>), V(<<"4",".","1">>), V(<<"4",".","2">>),
       V(<<"4",".","3">>), V(<<"4",".","4">>),
       V(<<"8",".","5">>), V(<<"8",".","6">>), V(<<"8",".","7">>),
       V(<<"8",".","8">>), V(<<"8",".","9">>),
       V(<<"9",".","0">>), V(<<"9",".","1">>), V(<<"9",".","2">>),
       V(<<"9",".","3">>), V(<<"9",".","4">>), V(<<"9",".","5">>),
       V(<<"9",".","6">>), V(<<"9",".","7">>) >>

patched_versions ==
    << V(<<"8",".","9">>) \o sP1 \o sUbuntu \o <<"3","u","b","u","n","t","u","0",".","1","0">>,
       V(<<"9",".","3">>) \o sP1 \o sUbuntu \o <<"3","u","b","u","n","t","u","3",".","6">>,
       V(<<"9",".","6">>) \o sP1 \o sUbuntu \o <<"3","u","b","u","n","t","u","1","3",".","3">>,
       V(<<"9",".","6">>) \o sP1 \o sUbuntu \o <<"3","u","b","u","n","t","u","1","3",".","4">>,
       V(<<"9",".","6">>) \o sP1 \o sUbuntu \o <<"3","u","b","u","n","t","u","1","3",".","5">>,
       V(<<"9",".","3">>) \o sP1 \o sUbuntu \o <<"1","u","b","u","n","t","u","3",".","6">>,
       V(<<"9",".","2">>) \o sP1 \o sDebian \o <<"2","+","d","e","b","1","2","u","3">>,
       V(<<"8",".","4">>) \o sP1 \o sDebian \o <<"5","+","d","e","b","1","1","u","3">>,
       V(<<"9",".","7">>) \o sP1 \o sDebian \o <<"7">>,
       V(<<"9",".","6">>) \o sFreeBSD,
       V(<<"9",".","7">>) \o sFreeBSD >>

\* set of the elements of a sequence
Range(f) == {f[i] : i \in DOMAIN f}

\* any(version in banner for version in vulnerable_versions)
AnyVulnerableVersionIn(banner) ==
    \E k \in DOMAIN vulnerable_versions : Contains(vulnerable_versions[k], banner)

\* Mutant of NotInPatched: a patched entry anywhere inside the banner exempts it.
NotContainingPatched(banner) ==
    ~ \E k \in DOMAIN patched_versions : Contains(patched_versions[k], banner)

\* banner not in patched_versions  (list membership: whole-string equality)
NotInPatched(banner) == banner \notin Range(patched_versions)

\* the condition of the `if` at line 135
IsCandidate(banner) == AnyVulnerableVersionIn(banner) /\ NotInPatched(banner)


\* ------------------------------------------------- addresses and resolvers

sNL == <<"\n">>
sSP == <<" ">>
ipA == <<"1","0",".","0",".","0",".","1">>
ipB == <<"1","0",".","0",".","0",".","2">>
sCidr30 == <<"1","0",".","0",".","0",".","0","/","3","0">>
sCidrBad == <<"1","0",".","0",".","0",".","0","/","3","3">>
sHost == <<"h","o","s","t">>
sNoHost == <<"n","o","h","o","s","t">>

\* ipaddress.ip_network(text, strict=False).hosts() as a list of str(ip); the
\* empty list stands for ValueError (no network of the model has no hosts).
ip_network_hosts(text) ==
    IF text = sCidr30 THEN <<ipA, ipB>> ELSE <<>>

\* resolve_hostname: socket.getaddrinfo answers for an address literal with the
\* literal itself and for a known name with its addresses; gaierror gives [].
resolve_hostname(hostname) ==
    IF hostname \in {ipA, ipB} THEN <<hostname, hostname>>
    ELSE IF hostname = sHost THEN <<ipB, ipA, ipB>>
    ELSE <<>>

RECURSIVE ip_list_lines(_)
\* the loop of process_ip_list over the lines of the file: the list `ips`
ip_list_lines(lines) ==
    IF lines = <<>> THEN <<>>
    ELSE LET target == Head(lines)
             this == IF Contains(<<"/">>, target)
                     THEN ip_network_hosts(strip(target))
                     ELSE <<target>>
         IN  this \o ip_list_lines(Tail(lines))

\* process_ip_list(ip_list_file): an unreadable file gives [].
process_ip_list(file) ==
    IF ~file.readable THEN <<>>
    ELSE LET ips == ip_list_lines(file.lines)
         IN  [i \in DOMAIN ips |-> strip(ips[i])]

\* what one positional target adds to the set `ips` (main, lines 220-236)
target_ips(target) ==
    IF target.file.readable THEN Range(target.file.lines)
    ELSE IF Contains(<<"/">>, target.text)
         THEN Range(ip_network_hosts(strip(target.text)))
         ELSE LET resolved_ips == resolve_hostname(target.text)
              IN  IF resolved_ips # <<>> THEN Range(resolved_ips)
                  ELSE {strip(target.text)}

\* the set `ips` main builds (lines 215-236)
expanded_ips(a) ==
    (IF a.list.given THEN Range(process_ip_list(a.list.file)) ELSE {})
    \cup UNION {target_ips(a.targets[i]) : i \in DOMAIN a.targets}

\* every ordering of a finite set as a list: list(ips) iterates the set in an
\* order the program does not control.
Orderings(S) ==
    {f \in [1..Cardinality(S) -> S] : \A x \in S : \E i \in DOMAIN f : f[i] = x}

\* the argument tuples of the submit calls, in submission order:
\*   [... for ip in ips for port in ports]  with ip.strip()
submit_list(iplist, ports) ==
    [k \in 1..(Len(iplist) * Len(ports)) |->
        [ip   |-> strip(iplist[((k - 1) \div Len(ports)) + 1]),
         port |-> ports[((k - 1) % Len(ports)) + 1]]]


\* ------------------------------------------------------------------ state

VARIABLES
    args,             \* the parsed command line (main, lines 208-213)
    net,              \* which network the scan runs on: "whole" or "small"
    mainpc,           \* main's position
    ips,              \* main's list `ips` (line 240)
    futures,          \* the arguments of the submit calls made so far
    scan,             \* main's loop index over `futures`
    pc,               \* each task's position in check_vulnerability
    banner,           \* each task's local `banner`
    hostname,         \* each task's local `hostname`
    sock,             \* each task's first socket: "none", "open", "closed"
    gsock,            \* each task's second socket: "unset", "None", "open", "closed"
    waited,           \* each task's time.time() - starttime at line 140
    read_timeout,     \* the timeout line 140 sets on the second socket
    puts,             \* how many result_queue.put calls each task has made
    verdict,          \* the status of the result each task has put, "" before
    grace_recv,       \* what the recv of line 143 met on each task's second
                      \* connection, "" before
    incs,             \* how many times each task has incremented the counter
    banner_path,      \* the way each task's get_ssh_banner call returned: "text",
                      \* "empty", "fallback" or "raised", "" before
    sock_timeout,     \* the timeout create_socket left on the socket it returned
                      \* to each task last, 0 before
    greeting,         \* what the recv of line 139 met on each task's second
                      \* connection and how long it took
    result_queue,     \* the Queue of result tuples
    progress_counter,
    progress_lock,    \* who holds the lock: LockFree, HeldByMain or HeldBy(i)
    buckets,          \* the aggregator's closed_ports and four lists
    warned,           \* results the aggregator printed as a warning line
    summary,          \* the counts main prints (lines 281-296)
    left_loop_early   \* the progress loop ended with a task still unfinished

vars == <<args, net, mainpc, ips, futures, scan, pc, banner, hostname,
          sock, gsock, waited, read_timeout, puts, verdict, grace_recv, incs,
          banner_path, sock_timeout, greeting, result_queue, progress_counter, progress_lock, buckets, warned,
          summary, left_loop_early>>

mainvars == <<mainpc, ips, futures, scan, buckets, warned, summary, left_loop_early>>
taskvars == <<pc, banner, hostname, sock, gsock, waited, read_timeout, puts,
              verdict, grace_recv, incs, banner_path, sock_timeout, greeting>>
inputvars == <<args, net>>

\* the holders of progress_lock
LockFree == <<>>
HeldByMain == <<"main">>
HeldBy(i) == <<"task", i>>

\* the pool ceiling: 100 in the source (line 243), scaled down here
max_workers == 2

Tasks == DOMAIN futures

\* concurrent.futures states of future i
Pending(i) == pc[i] = "pending"
Finished(i) == pc[i] \in {"done", "raised"}
Running(i) == ~Pending(i) /\ ~Finished(i)

\* str(e) of the exceptions a read or a send on a socket raises
sTimedOut == <<"t","i","m","e","d"," ","o","u","t">>
sReset == <<"r","e","s","e","t">>
sBrokenPipe == <<"b","r","o","k","e","n"," ","p","i","p","e">>

\* a socket with no timeout: its reads block until something arrives
NoTimeout == -1

\* no greeting read yet
NoGreeting == [kind |-> "", took |-> 0]

\* grace_time_check is None or 0 when the probe is off: both are falsy
GraceRequested == args.grace_time_check # 0

\* When a call of check_vulnerability ends, by return or by an exception, its
\* locals are gone.
LocalsDropped(i) ==
    /\ banner' = [banner EXCEPT ![i] = <<>>]
    /\ hostname' = [hostname EXCEPT ![i] = <<>>]
    /\ waited' = [waited EXCEPT ![i] = 0]
    /\ read_timeout' = [read_timeout EXCEPT ![i] = 0]

\* the result tuple (ip, port, status, message, hostname); the message keeps the
\* parts the f-string is built from
Result(i, status, form, elapsed, host) ==
    [ip |-> futures[i].ip, port |-> futures[i].port, status |-> status,
     message |-> [form |-> form, banner |-> banner[i], time_elapsed |-> elapsed],
     hostname |-> host]

\* result_queue.put(...)
Put(i, r) ==
    /\ result_queue' = Append(result_queue, r)
    /\ puts' = [puts EXCEPT ![i] = @ + 1]
    /\ verdict' = [verdict EXCEPT ![i] = r.status]

\* the whole-main list of submit arguments
todo == submit_list(ips, args.ports)


\* ------------------------------------------------------------- the inputs

\* the longest version text generated after 'SSH-2.0-OpenSSH_'
MaxVersionLen == 2
\* the most positional targets on a command line
MaxTargets == 2
\* the longest connect timeout, in seconds
MaxTimeout == 2

NoFile == [readable |-> FALSE, lines |-> <<>>]
File(lines) == [readable |-> TRUE, lines |-> lines]
sPath == <<"t",".","t","x","t">>

\* file contents, as the lines iteration and readlines() give them
FileContents ==
    { <<ipA \o sNL, ipA>>,
      <<ipA \o sNL, ipB>>,
      <<sSP \o ipB \o sNL, sCidr30 \o sNL>>,
      <<sCidrBad \o sNL, sNL>> }

\* a positional target: text that names no readable file, or a readable file
PositionalTargets ==
    { [text |-> t, file |-> NoFile] :
        t \in {ipA, sSP \o ipA, sCidr30, sCidrBad, sHost, sNoHost} }
    \cup { [text |-> sPath, file |-> File(c)] : c \in FileContents }

SeqsUpTo(S, n) == UNION {[1..k -> S] : k \in 0..n}

ListOptions ==
    { [given |-> FALSE, file |-> NoFile], [given |-> TRUE, file |-> NoFile] }
    \cup { [given |-> TRUE, file |-> File(c)] : c \in FileContents }

PortLists == { <<22>>, <<22, 2222>>, <<22, 22>>, <<22, 2222, 80>> }

\* every command line of the model
AllArgs ==
    [targets : SeqsUpTo(PositionalTargets, MaxTargets),
     list : ListOptions,
     ports : PortLists,
     timeout : 1..MaxTimeout,
     grace_time_check : {0, 1},
     use_help_request : BOOLEAN,
     dns_resolve : BOOLEAN]

sCRLF == <<"\r", "\n">>
sLibssh == sSSH20 \o <<"-","l","i","b","s","s","h","_","0",".","9">>
sHttp == <<"H","T","T","P","/","1",".","1">>
sSSH199 == <<"S","S","H","-","1",".","9","9","-","O","p","e","n","S","S","H","_","3",".","9">>

VersionChars == {"1", "4", "9", "."}

\* banners of the form SSH-2.0-OpenSSH_<text>
GeneratedBanners == {V(v) : v \in SeqsUpTo(VersionChars, MaxVersionLen)}

\* banner texts servers present
BannerTexts ==
    GeneratedBanners
    \cup Range(vulnerable_versions)
    \cup Range(patched_versions)
    \cup {patched_versions[k] \o <<" ", "x">> : k \in {1, 7, 10}}
    \cup {<<"x", " ">> \o patched_versions[k] : k \in {3, 9}}
    \cup {vulnerable_versions[k] \o sP1 : k \in {1, 8, 13, 20}}
    \cup { V(<<"1","0",".","0">>), V(<<"4",".","5">>), V(<<"7",".","4">>),
           V(<<"8",".","4">>) \o sP1, V(<<"9",".","8">>), sOpenSSH,
           sLibssh, sLibssh \o sSP \o V(<<"9",".","6">>),
           sHttp, sSSH199, sSSH20 }

\* the bytes of a banner as they arrive: with the line end, and in one case
\* with an undecodable byte in front
AllServerData ==
    {b \o sCRLF : b \in BannerTexts}
    \cup {<<BadByte>> \o V(<<"9",".","6">>) \o sCRLF, sCRLF, <<>>}

\* the bytes a server may send as its banner. On the whole network every
\* banner of the model occurs; on the small one every server that answers is
\* an OpenSSH 9.6p1.
NetData(n) ==
    IF n = "whole" THEN AllServerData
    ELSE {V(<<"9",".","6">>) \o sP1 \o sCRLF}

\* str(e) of the exceptions a read or a send on the banner connection may raise
NetErrors(n) ==
    IF n = "whole" THEN {sTimedOut, sReset} ELSE {sTimedOut}

\* ------------------------------------------------- check_vulnerability

\* Mutant of StartTask: every queued work item gets a thread of its own.
StartTaskUnbounded(i) ==
    /\ Pending(i)
    /\ \A j \in Tasks : j < i => ~Pending(j)
    /\ pc' = [pc EXCEPT ![i] = "connect"]
    /\ UNCHANGED <<inputvars, mainvars, banner_path, sock_timeout, greeting,
                   banner, hostname, sock, gsock, waited,
                   read_timeout, puts, verdict, grace_recv, incs, result_queue,
                   progress_counter, progress_lock>>

\* A worker thread of the pool takes the oldest queued work item; the pool has
\* at most max_workers threads, each running one item at a time.
StartTask(i) ==
    /\ Pending(i)
    /\ \A j \in Tasks : j < i => ~Pending(j)
    /\ Cardinality({j \in Tasks : Running(j)}) < max_workers
    /\ pc' = [pc EXCEPT ![i] = "connect"]
    /\ UNCHANGED <<inputvars, mainvars, banner_path, sock_timeout, greeting,
                   banner, hostname, sock, gsock, waited,
                   read_timeout, puts, verdict, grace_recv, incs, result_queue,
                   progress_counter, progress_lock>>

\* the None create_socket returns on any exception
NoSocket == [connected |-> FALSE, timeout |-> 0]

\* Mutant of create_socket: the timeout bounds the connect only and is taken
\* off the socket before it is returned.
create_socket_timeout_for_connect_only(connected, timeout) ==
    IF connected THEN [connected |-> TRUE, timeout |-> NoTimeout] ELSE NoSocket

\* create_socket, lines 47-55: settimeout comes before connect and nothing
\* changes the timeout afterwards, so the socket returned still has it
create_socket(connected, timeout) ==
    IF connected THEN [connected |-> TRUE, timeout |-> timeout] ELSE NoSocket

\* Mutant of Connect: the None that create_socket returns is not checked, and
\* the recv on it raises.
ConnectUnchecked(i) ==
    /\ pc[i] = "connect"
    /\ \E connected \in BOOLEAN :
          LET sshsock == create_socket(connected, args.timeout)
          IN  IF sshsock.connected
              THEN /\ sock' = [sock EXCEPT ![i] = "open"]
                   /\ sock_timeout' = [sock_timeout EXCEPT ![i] = sshsock.timeout]
                   /\ pc' = [pc EXCEPT ![i] = "banner"]
              ELSE /\ pc' = [pc EXCEPT ![i] = "raised"]
                   /\ UNCHANGED <<sock, sock_timeout>>
    /\ UNCHANGED <<inputvars, mainvars, banner_path, greeting,
                   banner, hostname, gsock, waited,
                   read_timeout, puts, verdict, grace_recv, incs, result_queue,
                   progress_counter, progress_lock>>

\* lines 74-79: create_socket returns a socket or, on any exception, None
Connect(i) ==
    /\ pc[i] = "connect"
    /\ \E connected \in BOOLEAN :
          LET sshsock == create_socket(connected, args.timeout)
          IN  IF sshsock.connected
              THEN /\ sock' = [sock EXCEPT ![i] = "open"]
                   /\ sock_timeout' = [sock_timeout EXCEPT ![i] = sshsock.timeout]
                   /\ pc' = [pc EXCEPT ![i] = "banner"]
                   /\ UNCHANGED <<result_queue, puts, verdict>>
              ELSE /\ Put(i, Result(i, "closed", "Port closed", 0, futures[i].ip))
                   /\ pc' = [pc EXCEPT ![i] = "lock"]
                   /\ UNCHANGED <<sock, sock_timeout>>
    /\ UNCHANGED <<inputvars, mainvars, banner_path, greeting,
                   banner, hostname, gsock, waited,
                   read_timeout, grace_recv, incs, progress_counter, progress_lock>>

\* what one sock.recv(1024) on the banner connection does: it returns bytes
\* (none at all when the peer has closed) or raises; it raises socket.timeout
\* only when the socket has a timeout
RecvOutcomes(timeout) ==
    [kind : {"data"}, data : NetData(net)]
    \cup [kind : {"raise"},
          data : {e \in NetErrors(net) : e = sTimedOut => timeout # NoTimeout}]

\* the return statement or except clause get_ssh_banner leaves by
return_path(r1, sent, r2, use_help_request) ==
    IF r1.kind = "raise" THEN "raised"
    ELSE IF recv_text(r1.data) # <<>> THEN "text"
    ELSE IF ~use_help_request THEN "empty"
    ELSE IF ~sent \/ r2.kind = "raise" THEN "raised"
    ELSE "fallback"

\* the outcome standing for a call that is not made
NoRecv == [kind |-> "data", data |-> <<>>]

\* Mutant of socket_after_get_ssh_banner: the close is the last statement of
\* the try block and not a finally clause.
socket_left_open_on_exception(path) ==
    IF path = "raised" THEN "open" ELSE "closed"

\* lines 68-69: the finally clause closes the socket on every way out
socket_after_get_ssh_banner(path) == "closed"

\* Mutant of get_ssh_banner: an exception is swallowed and no text returned.
get_ssh_banner_swallows_error(r1, sent, r2, use_help_request) ==
    IF r1.kind = "raise" THEN <<>>
    ELSE LET first == recv_text(r1.data)
         IN  IF first # <<>> \/ ~use_help_request THEN first
             ELSE IF ~sent THEN <<>>
             ELSE IF r2.kind = "raise" THEN <<>>
             ELSE recv_text(r2.data)

\* get_ssh_banner, lines 57-69: the text it returns for the outcome r1 of the
\* first recv, the outcome `sent` of sendall and the outcome r2 of the second recv
get_ssh_banner(r1, sent, r2, use_help_request) ==
    IF r1.kind = "raise" THEN r1.data
    ELSE LET first == recv_text(r1.data)
         IN  IF first # <<>> \/ ~use_help_request THEN first
             ELSE IF ~sent THEN sBrokenPipe
             ELSE IF r2.kind = "raise" THEN r2.data
             ELSE recv_text(r2.data)

\* line 81: the banner is read and, in the finally clause, the socket closed
GetBanner(i) ==
    /\ pc[i] = "banner"
    /\ \E r1 \in RecvOutcomes(sock_timeout[i]) :
          LET fallback == /\ args.use_help_request
                          /\ r1.kind = "data"
                          /\ recv_text(r1.data) = <<>>
          IN  \E sent \in (IF fallback THEN BOOLEAN ELSE {TRUE}),
                 r2 \in (IF fallback THEN RecvOutcomes(sock_timeout[i]) ELSE {NoRecv}) :
                /\ banner' = [banner EXCEPT ![i] =
                                 get_ssh_banner(r1, sent, r2, args.use_help_request)]
                /\ banner_path' = [banner_path EXCEPT ![i] =
                                 return_path(r1, sent, r2, args.use_help_request)]
                /\ sock' = [sock EXCEPT ![i] = socket_after_get_ssh_banner(
                                 return_path(r1, sent, r2, args.use_help_request))]
    /\ pc' = [pc EXCEPT ![i] = "classify"]
    /\ UNCHANGED <<inputvars, mainvars, sock_timeout, greeting,
                   hostname, gsock, waited, read_timeout,
                   puts, verdict, grace_recv, incs, result_queue,
                   progress_counter, progress_lock>>

\* the name socket.gethostbyaddr may give for an address
sName == <<"n","a","m","e">>

\* resolve_ip, lines 181-186: a name, or None (here the empty text) on herror
\* or gaierror
ResolveIpOutcomes == {sName, <<>>}

\* Mutant of classify: the test for "SSH-2.0-OpenSSH" comes first.
classify_rules_swapped(b, grace_requested) ==
    IF ~Contains(sOpenSSH, b) THEN "unknown"
    ELSE IF ~Contains(sSSH20, b) THEN "failed"
    ELSE IF IsCandidate(b)
         THEN IF grace_requested THEN "candidate" ELSE "vulnerable"
         ELSE "not_vulnerable"

\* Mutant of classify: with the grace-time check requested every OpenSSH banner
\* is handed to the probe, whatever the tables say.
classify_probes_all(b, grace_requested) ==
    IF ~Contains(sSSH20, b) THEN "failed"
    ELSE IF ~Contains(sOpenSSH, b) THEN "unknown"
    ELSE IF grace_requested THEN "candidate"
    ELSE IF IsCandidate(b) THEN "vulnerable"
    ELSE "not_vulnerable"

\* lines 82-135 and 155-158: the verdict the version rules give, or "candidate"
\* when the grace probe is to decide
classify(b, grace_requested) ==
    IF ~Contains(sSSH20, b) THEN "failed"
    ELSE IF ~Contains(sOpenSSH, b) THEN "unknown"
    ELSE IF IsCandidate(b)
         THEN IF grace_requested THEN "candidate" ELSE "vulnerable"
         ELSE "not_vulnerable"

\* lines 82-135, 155-158
Classify(i) ==
    /\ pc[i] = "classify"
    /\ LET status == classify(banner[i], GraceRequested)
       IN  IF status \in {"failed", "unknown"}
           THEN /\ Put(i, Result(i, status, status, 0, futures[i].ip))
                /\ pc' = [pc EXCEPT ![i] = "lock"]
                /\ UNCHANGED hostname
           ELSE \E h \in (IF args.dns_resolve THEN ResolveIpOutcomes ELSE {<<>>}) :
                  /\ hostname' = [hostname EXCEPT ![i] = h]
                  /\ IF status = "candidate"
                     THEN /\ pc' = [pc EXCEPT ![i] = "grace_connect"]
                          /\ UNCHANGED <<result_queue, puts, verdict>>
                     ELSE /\ Put(i, Result(i, status, "running", 0, h))
                          /\ pc' = [pc EXCEPT ![i] = "lock"]
    /\ UNCHANGED <<inputvars, mainvars, banner_path, sock_timeout, greeting,
                   banner, sock, gsock, waited, read_timeout,
                   grace_recv, incs, progress_counter, progress_lock>>

\* line 137: the second connection; create_socket may return None
GraceConnect(i) ==
    /\ pc[i] = "grace_connect"
    /\ \E connected \in BOOLEAN :
          LET sshsock == create_socket(connected, args.timeout)
          IN  /\ gsock' = [gsock EXCEPT ![i] =
                              IF sshsock.connected THEN "open" ELSE "None"]
              /\ sock_timeout' = [sock_timeout EXCEPT ![i] = sshsock.timeout]
    /\ pc' = [pc EXCEPT ![i] = "grace_greeting"]
    /\ UNCHANGED <<inputvars, mainvars, banner_path, greeting,
                   banner, hostname, sock, waited,
                   read_timeout, puts, verdict, grace_recv, incs, result_queue,
                   progress_counter, progress_lock>>

\* what a recv on the second connection meets: data, the orderly end of the
\* session (recv returns no bytes), the socket's timeout, or the abortive end
\* of the session (a reset, which raises ConnectionResetError)
GraceRecvKinds == {"data", "eof", "timeout", "reset"}

\* what a recv on a socket with the given timeout may meet; without a timeout
\* it never raises socket.timeout
RecvKinds(timeout) ==
    IF timeout = NoTimeout THEN GraceRecvKinds \ {"timeout"} ELSE GraceRecvKinds

\* how long a recv on a socket with timeout `limit` takes, in whole seconds:
\* all of the limit when it times out, and less than the limit otherwise
\* (here no time at all, or one second less); on a socket without a timeout it
\* may take longer than any timeout of the model
Durations(kind, limit) ==
    IF limit = NoTimeout THEN {0, MaxTimeout + 1}
    ELSE IF kind = "timeout" THEN {limit}
    ELSE IF limit >= 1 THEN {0, limit - 1}
    ELSE {0}

\* line 140: grace_time_check - (time.time() - starttime) + 4
grace_read_timeout(grace, elapsed) == grace - elapsed + 4

\* Mutant of elapsed_since_starttime: starttime is taken after the greeting has
\* been read.
elapsed_starttime_after_greeting(greeting_took) == 0

\* time.time() - starttime at line 140: starttime is taken on line 138, before
\* the recv of line 139, so the difference is the time that recv took
elapsed_since_starttime(greeting_took) ==
    LET starttime == 0
        now == starttime + greeting_took
    IN  now - starttime

\* lines 138-140: starttime is taken, the greeting is read with the timeout
\* create_socket left on the socket, and the read timeout is set. A recv on
\* None, a timeout or a reset of the greeting read, and a negative timeout
\* handed to settimeout all raise out of check_vulnerability.
GraceGreeting(i) ==
    /\ pc[i] = "grace_greeting"
    /\ \E kind \in (IF gsock[i] = "None" THEN {"None"}
                    ELSE RecvKinds(sock_timeout[i])) :
       \E t \in (IF gsock[i] = "None" THEN {0}
                 ELSE Durations(kind, sock_timeout[i])) :
          LET elapsed == elapsed_since_starttime(t)
          IN  /\ greeting' = [greeting EXCEPT ![i] = [kind |-> kind, took |-> t]]
              /\ IF /\ kind \in {"data", "eof"}
                    /\ grace_read_timeout(args.grace_time_check, elapsed) >= 0
                 THEN /\ waited' = [waited EXCEPT ![i] = elapsed]
                      /\ read_timeout' = [read_timeout EXCEPT ![i] =
                             grace_read_timeout(args.grace_time_check, elapsed)]
                      /\ pc' = [pc EXCEPT ![i] = "grace_read"]
                      /\ UNCHANGED <<banner, hostname>>
                 ELSE /\ pc' = [pc EXCEPT ![i] = "raised"]
                      /\ LocalsDropped(i)
    /\ UNCHANGED <<inputvars, mainvars, banner_path, sock_timeout,
                   sock, gsock, puts, verdict, grace_recv,
                   incs, result_queue, progress_counter, progress_lock>>

\* lines 141-154: the read that waits for the server to end the session; only
\* socket.timeout is caught. With a timeout of 0 the socket is non-blocking and
\* a recv that finds nothing raises BlockingIOError.
GraceRead(i) ==
    /\ pc[i] = "grace_read"
    /\ \E kind \in GraceRecvKinds :
       \E t \in Durations(kind, read_timeout[i]) :
          /\ grace_recv' = [grace_recv EXCEPT ![i] = kind]
          /\ IF kind = "reset" \/ (kind = "timeout" /\ read_timeout[i] = 0)
             THEN /\ pc' = [pc EXCEPT ![i] = "raised"]
                  /\ LocalsDropped(i)
                  /\ UNCHANGED <<result_queue, puts, verdict, gsock>>
             ELSE /\ IF kind = "timeout"
                     THEN Put(i, Result(i, "likely_not_vulnerable",
                                        "false negative possible", 0, hostname[i]))
                     ELSE Put(i, Result(i, "vulnerable", "session closed",
                                        waited[i] + t, hostname[i]))
                  /\ gsock' = [gsock EXCEPT ![i] = "closed"]
                  /\ pc' = [pc EXCEPT ![i] = "lock"]
                  /\ UNCHANGED <<banner, hostname, waited, read_timeout>>
    /\ UNCHANGED <<inputvars, mainvars, banner_path, sock_timeout, greeting,
                   sock, incs, progress_counter, progress_lock>>

\* `with progress_lock:` is entered
AcquireLock(i) ==
    /\ pc[i] = "lock"
    /\ progress_lock = LockFree
    /\ progress_lock' = HeldBy(i)
    /\ pc' = [pc EXCEPT ![i] = "incr"]
    /\ UNCHANGED <<inputvars, mainvars, banner_path, sock_timeout, greeting,
                   banner, hostname, sock, gsock, waited,
                   read_timeout, puts, verdict, grace_recv, incs, result_queue,
                   progress_counter>>

\* progress_counter += 1, the lock is released and the call returns
Increment(i) ==
    /\ pc[i] = "incr"
    /\ progress_counter' = progress_counter + 1
    /\ incs' = [incs EXCEPT ![i] = @ + 1]
    /\ progress_lock' = LockFree
    /\ pc' = [pc EXCEPT ![i] = "done"]
    /\ LocalsDropped(i)
    /\ UNCHANGED <<inputvars, mainvars, banner_path, sock_timeout, greeting,
                   sock, gsock, puts, verdict, grace_recv,
                   result_queue>>

\* ------------------------------------------------------------------ main

\* lines 215-241: the set of targets is built and turned into a list
MainExpand ==
    /\ mainpc = "expand"
    /\ \E order \in Orderings(expanded_ips(args)) : ips' = order
    /\ mainpc' = "submit"
    /\ UNCHANGED <<inputvars, taskvars, futures, scan, buckets, warned, summary,
                   left_loop_early, result_queue, progress_counter, progress_lock>>

\* lines 246-247: one executor.submit call of the list comprehension, which
\* queues the work item and returns at once; after the last one the progress
\* loop is entered
MainSubmit ==
    /\ mainpc = "submit"
    /\ IF Len(futures) < Len(todo)
       THEN /\ futures' = Append(futures, todo[Len(futures) + 1])
            /\ pc' = Append(pc, "pending")
            /\ banner' = Append(banner, <<>>)
            /\ hostname' = Append(hostname, <<>>)
            /\ sock' = Append(sock, "none")
            /\ gsock' = Append(gsock, "unset")
            /\ waited' = Append(waited, 0)
            /\ read_timeout' = Append(read_timeout, 0)
            /\ puts' = Append(puts, 0)
            /\ verdict' = Append(verdict, "")
            /\ grace_recv' = Append(grace_recv, "")
            /\ incs' = Append(incs, 0)
            /\ banner_path' = Append(banner_path, "")
            /\ sock_timeout' = Append(sock_timeout, 0)
            /\ greeting' = Append(greeting, NoGreeting)
            /\ UNCHANGED <<mainpc, scan>>
       ELSE /\ mainpc' = "poll"
            /\ scan' = 1
            /\ UNCHANGED <<futures, taskvars>>
    /\ UNCHANGED <<inputvars, ips, buckets, warned, summary, left_loop_early, result_queue,
                   progress_counter, progress_lock>>

\* Mutant of MainPoll: the results are drained as soon as the progress loop
\* ends, with no wait for the pool's threads or for the futures.
MainPollThenDrain ==
    /\ mainpc = "poll"
    /\ IF scan > Len(futures)
       THEN /\ mainpc' = "drain"
            /\ left_loop_early' = \E i \in Tasks : ~Finished(i)
            /\ UNCHANGED scan
       ELSE IF Running(scan)
            THEN mainpc' = "print" /\ UNCHANGED <<scan, left_loop_early>>
            ELSE scan' = scan + 1 /\ UNCHANGED <<mainpc, left_loop_early>>
    /\ UNCHANGED <<inputvars, taskvars, ips, futures, buckets, warned, summary,
                   result_queue, progress_counter, progress_lock>>

\* line 249: any(future.running() for future in futures) looks at one future
\* after the other and stops at the first that is running
MainPoll ==
    /\ mainpc = "poll"
    /\ IF scan > Len(futures)
       THEN /\ mainpc' = "shutdown"
            /\ left_loop_early' = \E i \in Tasks : ~Finished(i)
            /\ UNCHANGED scan
       ELSE IF Running(scan)
            THEN mainpc' = "print" /\ UNCHANGED <<scan, left_loop_early>>
            ELSE scan' = scan + 1 /\ UNCHANGED <<mainpc, left_loop_early>>
    /\ UNCHANGED <<inputvars, taskvars, ips, futures, buckets, warned, summary,
                   result_queue, progress_counter, progress_lock>>

\* line 250: main takes the lock to print the progress line
MainAcquireLock ==
    /\ mainpc = "print"
    /\ progress_lock = LockFree
    /\ progress_lock' = HeldByMain
    /\ mainpc' = "printing"
    /\ UNCHANGED <<inputvars, taskvars, ips, futures, scan, buckets, warned,
                   summary, left_loop_early, result_queue, progress_counter>>

\* lines 251-252: the line is printed, the lock released, and after the sleep
\* the loop condition is evaluated again
MainReleaseLock ==
    /\ mainpc = "printing"
    /\ progress_lock' = LockFree
    /\ mainpc' = "poll"
    /\ scan' = 1
    /\ UNCHANGED <<inputvars, taskvars, ips, futures, buckets, warned, summary,
                   left_loop_early, result_queue, progress_counter>>

\* line 245, the end of the with block: executor.shutdown(wait=True) returns
\* when every worker thread has ended, that is when no work item is left
MainShutdown ==
    /\ mainpc = "shutdown"
    /\ \A i \in Tasks : Finished(i)
    /\ mainpc' = "results"
    /\ scan' = 1
    /\ UNCHANGED <<inputvars, taskvars, ips, futures, buckets, warned, summary,
                   left_loop_early, result_queue, progress_counter, progress_lock>>

\* lines 254-257: future.result() waits for the future to be done and returns
\* None or raises what the task raised, which ends main with a traceback; after
\* the last future the final progress line is printed
MainResults ==
    /\ mainpc = "results"
    /\ scan <= Len(futures) => Finished(scan)
    /\ IF scan > Len(futures)
       THEN mainpc' = "drain" /\ UNCHANGED scan
       ELSE IF pc[scan] = "raised"
            THEN mainpc' = "crashed" /\ UNCHANGED scan
            ELSE scan' = scan + 1 /\ UNCHANGED mainpc
    /\ UNCHANGED <<inputvars, taskvars, ips, futures, buckets, warned, summary,
                   left_loop_early, result_queue, progress_counter, progress_lock>>

\* Mutant of Bucketed: the status is matched by `'vulnerable' in status`, which
\* the three statuses ending in "vulnerable" all satisfy.
Bucketed_by_substring(b, r) ==
    LET entry == [display_ip |-> [ip |-> r.ip, hostname |-> r.hostname],
                  port |-> r.port, message |-> r.message]
    IN  IF r.status = "closed"
        THEN [b EXCEPT !.closed_ports = @ + 1]
        ELSE IF r.status = "unknown"
        THEN [b EXCEPT !.unknown = Append(@, entry)]
        ELSE IF r.status \in {"vulnerable", "not_vulnerable", "likely_not_vulnerable"}
        THEN [b EXCEPT !.vulnerable = Append(@, entry)]
        ELSE b

\* lines 267-279: the bucket a dequeued result goes to
Bucketed(b, r) ==
    LET entry == [display_ip |-> [ip |-> r.ip, hostname |-> r.hostname],
                  port |-> r.port, message |-> r.message]
    IN  IF r.status = "closed"
        THEN [b EXCEPT !.closed_ports = @ + 1]
        ELSE IF r.status = "unknown"
        THEN [b EXCEPT !.unknown = Append(@, entry)]
        ELSE IF r.status = "vulnerable"
        THEN [b EXCEPT !.vulnerable = Append(@, entry)]
        ELSE IF r.status = "not_vulnerable"
        THEN [b EXCEPT !.not_vulnerable = Append(@, entry)]
        ELSE IF r.status = "likely_not_vulnerable"
        THEN [b EXCEPT !.likely_not_vulnerable = Append(@, entry)]
        ELSE b

\* lines 265-279: one turn of the drain loop; with the queue empty the loop ends
MainDrain ==
    /\ mainpc = "drain"
    /\ IF result_queue = <<>>
       THEN /\ mainpc' = "report"
            /\ UNCHANGED <<result_queue, buckets, warned>>
       ELSE LET r == Head(result_queue)
            IN  /\ result_queue' = Tail(result_queue)
                /\ buckets' = Bucketed(buckets, r)
                /\ warned' = IF r.status \in {"closed", "unknown", "vulnerable",
                                              "not_vulnerable", "likely_not_vulnerable"}
                             THEN warned ELSE warned + 1
                /\ UNCHANGED mainpc
    /\ UNCHANGED <<inputvars, taskvars, ips, futures, scan, summary,
                   left_loop_early, progress_counter, progress_lock>>

\* lines 281-296: the counts of the summary; the likely-not-vulnerable count
\* is printed only when the grace-time check was requested
MainReport ==
    /\ mainpc = "report"
    /\ summary' = [printed |-> TRUE,
                   not_vulnerable |-> Len(buckets.not_vulnerable),
                   likely_shown |-> GraceRequested,
                   likely_not_vulnerable |-> Len(buckets.likely_not_vulnerable),
                   vulnerable |-> Len(buckets.vulnerable),
                   unknown |-> Len(buckets.unknown),
                   closed_ports |-> buckets.closed_ports,
                   total_hosts |-> Len(ips),
                   checks_performed |-> progress_counter]
    /\ mainpc' = "done"
    /\ UNCHANGED <<inputvars, taskvars, ips, futures, scan, buckets, warned,
                   left_loop_early, result_queue, progress_counter, progress_lock>>


InitWith(A, N) ==
    /\ args \in A
    /\ net = N
    /\ mainpc = "expand"
    /\ ips = <<>>
    /\ futures = <<>>
    /\ scan = 1
    /\ pc = <<>>
    /\ banner = <<>>
    /\ hostname = <<>>
    /\ sock = <<>>
    /\ gsock = <<>>
    /\ waited = <<>>
    /\ read_timeout = <<>>
    /\ puts = <<>>
    /\ incs = <<>>
    /\ result_queue = <<>>
    /\ progress_counter = 0
    /\ progress_lock = LockFree
    /\ buckets = [closed_ports |-> 0, unknown |-> <<>>, vulnerable |-> <<>>,
                  not_vulnerable |-> <<>>, likely_not_vulnerable |-> <<>>]
    /\ warned = 0
    /\ summary = [printed |-> FALSE]
    /\ left_loop_early = FALSE
    /\ verdict = <<>>
    /\ grace_recv = <<>>
    /\ banner_path = <<>>
    /\ sock_timeout = <<>>
    /\ greeting = <<>>

\* scans of one address on several ports: on two ports with and without the
\* grace-time check, on three ports without it
ScanArgs ==
    {a \in AllArgs :
        /\ a.list.given = FALSE
        /\ a.targets = <<[text |-> ipA, file |-> NoFile]>>
        /\ a.timeout = 1
        /\ ~a.use_help_request
        /\ ~a.dns_resolve
        /\ Len(a.ports) >= 2
        /\ Len(a.ports) = 3 => a.grace_time_check = 0}

\* scans of one target on one port
OneTargetArgs ==
    {a \in AllArgs :
        /\ a.list.given = FALSE
        /\ a.targets = <<[text |-> ipA, file |-> NoFile]>>
        /\ a.ports = <<22>>}

\* every command line, with the flags of the probe off
ExpandArgs ==
    {a \in AllArgs :
        /\ a.ports \in {<<22>>, <<22, 2222>>}
        /\ a.timeout = 1
        /\ a.grace_time_check = 0
        /\ ~a.use_help_request
        /\ ~a.dns_resolve}

\* the longest connect timeout of the scans with long timeouts, in seconds
MaxLongTimeout == 7

\* scans of one target on one port with the grace-time check requested, for
\* connect timeouts up to MaxLongTimeout
LongTimeoutArgs ==
    [targets : {<<[text |-> ipA, file |-> NoFile]>>},
     list : {[given |-> FALSE, file |-> NoFile]},
     ports : {<<22>>},
     timeout : 1..MaxLongTimeout,
     grace_time_check : {1, 2},
     use_help_request : {FALSE},
     dns_resolve : {FALSE}]

Init == InitWith(ScanArgs, "small")
InitLongTimeout == InitWith(LongTimeoutArgs, "small")
InitOneTarget == InitWith(OneTargetArgs, "whole")
InitExpand == InitWith(ExpandArgs, "small")

TaskStep(i) ==
    \/ StartTask(i)
    \/ Connect(i)
    \/ GetBanner(i)
    \/ Classify(i)
    \/ GraceConnect(i)
    \/ GraceGreeting(i)
    \/ GraceRead(i)
    \/ AcquireLock(i)
    \/ Increment(i)

MainStep ==
    \/ MainExpand
    \/ MainSubmit
    \/ MainPoll
    \/ MainAcquireLock
    \/ MainReleaseLock
    \/ MainShutdown
    \/ MainResults
    \/ MainDrain
    \/ MainReport

Next == MainStep \/ \E i \in Tasks : TaskStep(i)

\* the scan of several targets
Spec == Init /\ [][Next]_vars

\* the scan of one target, with every banner of the model
SpecOneTarget == InitOneTarget /\ [][Next]_vars

\* the scan of one target with the grace-time check and a long connect timeout
SpecLongTimeout == InitLongTimeout /\ [][Next]_vars

\* the scan of several targets under fair scheduling: main keeps running, and a
\* pool thread that can take a step again and again does take it (the progress
\* loop sleeps a second after each release of the lock, which lets a waiting
\* task in)
FairSpec ==
    /\ Init
    /\ [][Next]_vars
    /\ WF_vars(MainStep)
    /\ SF_vars(\E i \in Tasks : TaskStep(i))

\* the expansion of the targets and the submission of the tasks, for every
\* command line of the model; the pool's threads are not scheduled
SpecExpand == InitExpand /\ [][MainExpand \/ (MainSubmit /\ mainpc' = "submit")]_vars


\* ------------------------------------------------------------- the claims

\* C1: every task puts exactly one result on the result queue by the time it
\* finishes: never two, and never none.
C1_ExactlyOneResultPerTask ==
    \A i \in Tasks : puts[i] <= 1 /\ (Finished(i) => puts[i] = 1)

\* C2: no task's failure is fatal to the scan: main is never ended by what a
\* task raised, so it goes on to the aggregation.
C2_NoTaskFailureIsFatal == mainpc # "crashed"

\* C3: with the grace-time check off, a banner containing "SSH-2.0-OpenSSH" is
\* reported vulnerable exactly when some vulnerable prefix is a substring of it
\* and it equals no patched entry as a whole; otherwise not_vulnerable.
C3_VersionTableVerdict ==
    ~GraceRequested =>
        \A k \in DOMAIN result_queue :
            LET r == result_queue[k]
                b == r.message.banner
            IN  Contains(sOpenSSH, b) =>
                  r.status =
                    IF /\ \E v \in Range(vulnerable_versions) : Contains(v, b)
                       /\ \A q \in Range(patched_versions) : b # q
                    THEN "vulnerable" ELSE "not_vulnerable"

\* a banner equal to a patched entry, with the vulnerable prefix 8.9 in it, has
\* been reported not_vulnerable
C3_Witness ==
    /\ ~GraceRequested
    /\ \E k \in DOMAIN result_queue :
          /\ result_queue[k].message.banner = patched_versions[1]
          /\ Contains(vulnerable_versions[13], patched_versions[1])
          /\ result_queue[k].status = "not_vulnerable"

\* C4: a banner without "SSH-2.0" is reported failed and a banner with
\* "SSH-2.0" but without "SSH-2.0-OpenSSH" is reported unknown, whatever else
\* it contains; a task with such a banner opens no second connection.
C4_FirstTwoRules ==
    \A i \in Tasks :
        /\ (pc[i] \in {"lock", "incr"} /\ sock[i] = "closed") =>
              /\ ~Contains(sSSH20, banner[i]) => verdict[i] = "failed"
              /\ (Contains(sSSH20, banner[i]) /\ ~Contains(sOpenSSH, banner[i]))
                    => verdict[i] = "unknown"
        /\ verdict[i] \in {"failed", "unknown"} => gsock[i] = "unset"
        /\ pc[i] \in {"grace_connect", "grace_greeting", "grace_read"}
              => Contains(sOpenSSH, banner[i])

\* the banner "SSH-2.0-libssh_0.9" has been reported unknown and the task
\* has opened no second connection
C4_Witness ==
    \E i \in Tasks :
        /\ pc[i] = "lock"
        /\ banner[i] = sLibssh
        /\ verdict[i] = "unknown"
        /\ gsock[i] = "unset"

\* C5: when the server ends the session or sends data on the second connection
\* before the read deadline the task reports vulnerable, and when the deadline
\* passes it reports likely_not_vulnerable.
C5_GraceProbeVerdict ==
    \A i \in Tasks :
        (Finished(i) /\ grace_recv[i] # "") =>
            verdict[i] = IF grace_recv[i] = "timeout"
                         THEN "likely_not_vulnerable" ELSE "vulnerable"

\* C6: a task whose first connection attempt failed reports closed, exactly
\* once, reads no banner, connects no second time, increments the counter once
\* and ends without an exception.
C6_ConnectFailureIsClosedPort ==
    \A i \in Tasks :
        (pc[i] \notin {"pending", "connect"} /\ sock[i] = "none") =>
            /\ pc[i] \in {"lock", "incr", "done"}
            /\ verdict[i] = "closed"
            /\ puts[i] = 1
            /\ gsock[i] = "unset"
            /\ incs[i] = (IF pc[i] = "done" THEN 1 ELSE 0)

\* a task whose connection attempt failed has ended
C6_Witness ==
    \E i \in Tasks :
        /\ pc[i] = "done"
        /\ sock[i] = "none"
        /\ verdict[i] = "closed"
        /\ incs[i] = 1

\* C7: at most max_workers tasks are past pending and not finished, so at most
\* max_workers are connecting, and a submit call is never blocked.
C7_PoolCeiling ==
    /\ Cardinality({i \in Tasks : Running(i)}) <= max_workers
    /\ Cardinality({i \in Tasks : pc[i] = "connect"}) <= max_workers
    /\ (mainpc = "submit" /\ Len(futures) < Len(todo)) => ENABLED MainSubmit

\* more tasks than workers: max_workers tasks are connecting and one waits
C7_Witness ==
    /\ Len(futures) > max_workers
    /\ Cardinality({i \in Tasks : pc[i] = "connect"}) = max_workers
    /\ \E i \in Tasks : Pending(i)

\* C8: the counter is incremented exactly once for each task that finishes, so
\* with every submitted task finished it equals the number of submitted tasks.
C8_CounterCountsFinishedTasks ==
    /\ \A i \in Tasks : incs[i] <= 1 /\ (Finished(i) => incs[i] = 1)
    /\ (mainpc \notin {"expand", "submit"} /\ \A i \in Tasks : Finished(i))
          => progress_counter = Len(futures)

\* C9: a result leaves the result queue only when every submitted task has
\* finished.
C9_DrainAfterAllFinished ==
    [][Len(result_queue') < Len(result_queue) => \A i \in Tasks : Finished(i)]_vars

\* the progress loop ended with a task unfinished, and a result has been
\* dequeued since
C9_Witness ==
    /\ left_loop_early
    /\ mainpc = "drain"
    /\ buckets.closed_ports > 0

\* C10: once the list comprehension is through, no (address, port) pair has
\* been submitted twice and every pair of the expanded set has been submitted.
C10_OneTaskPerPair ==
    (mainpc = "submit" /\ Len(futures) = Len(todo)) =>
        /\ \A j, k \in DOMAIN futures : j # k => futures[j] # futures[k]
        /\ Range(futures) = {[ip |-> strip(x), port |-> q] :
                                x \in expanded_ips(args), q \in Range(args.ports)}

\* the order of the steps of check_vulnerability
Rank(p) ==
    CASE p = "pending" -> 0
      [] p = "connect" -> 1
      [] p = "banner" -> 2
      [] p = "classify" -> 3
      [] p = "grace_connect" -> 4
      [] p = "grace_greeting" -> 5
      [] p = "grace_read" -> 6
      [] p = "lock" -> 7
      [] p = "incr" -> 8
      [] p \in {"done", "raised"} -> 9

\* C11: a task only moves forward through its steps: the banner is read only
\* on a connection that was opened, a result is put only by the connect, the
\* classification or the grace read, each before the counter is incremented,
\* the second connection is opened only after the classification of a banner
\* that is a candidate and with the grace-time check requested, and a task that
\* has ended changes nothing any more.
C11_ForwardOnly ==
    [][\A i \in Tasks :
          /\ Rank(pc'[i]) >= Rank(pc[i])
          /\ (pc[i] = "banner" /\ pc'[i] # "banner") =>
                 sock[i] = "open" /\ pc'[i] = "classify"
          /\ puts'[i] # puts[i] =>
                 /\ pc[i] \in {"connect", "classify", "grace_read"}
                 /\ pc'[i] = "lock"
                 /\ incs[i] = 0
          /\ (pc'[i] = "grace_connect" /\ pc[i] # "grace_connect") =>
                 /\ pc[i] = "classify"
                 /\ IsCandidate(banner[i])
                 /\ GraceRequested
          /\ gsock'[i] # gsock[i] =>
                 IsCandidate(banner[i]) /\ GraceRequested
          /\ Finished(i) =>
                 /\ pc'[i] = pc[i]
                 /\ puts'[i] = puts[i]
                 /\ incs'[i] = incs[i]
                 /\ sock'[i] = sock[i]
                 /\ gsock'[i] = gsock[i]
                 /\ verdict'[i] = verdict[i]
      ]_vars

\* a task has gone through every step, the grace probe included, and has ended
C11_Witness ==
    \E i \in Tasks :
        /\ pc[i] = "done"
        /\ sock[i] = "closed"
        /\ gsock[i] = "closed"
        /\ puts[i] = 1
        /\ incs[i] = 1

\* str(e) of the exceptions the model lets a read or a send raise
ErrorTexts == {sTimedOut, sReset, sBrokenPipe}

\* C12: when a read or the fallback send on the banner connection raised, the
\* task is not ended by the exception: the text of the exception is its banner,
\* it reports failed with that text in the message, once, and ends normally.
C12_BannerErrorIsFailed ==
    \A i \in Tasks :
        banner_path[i] = "raised" =>
            /\ pc[i] \in {"classify", "lock", "incr", "done"}
            /\ pc[i] # "done" => banner[i] \in ErrorTexts
            /\ pc[i] = "classify" => puts[i] = 0
            /\ pc[i] # "classify" => verdict[i] = "failed" /\ puts[i] = 1
            /\ pc[i] \in {"lock", "incr"} =>
                   \E k \in DOMAIN result_queue :
                       /\ result_queue[k].status = "failed"
                       /\ result_queue[k].message.banner = banner[i]
                       /\ result_queue[k].port = futures[i].port

\* the banner read timed out and the task has reported failed and ended
C12_Witness ==
    \E i \in Tasks :
        /\ banner_path[i] = "raised"
        /\ pc[i] = "done"
        /\ verdict[i] = "failed"
        /\ puts[i] = 1
        /\ \E k \in DOMAIN result_queue :
               result_queue[k].message.banner = sTimedOut

\* C13 as stated: the elapsed time line 140 subtracts does not include the
\* time the greeting read took, so the read timeout is the grace time plus 4.
C13_ElapsedExcludesGreeting ==
    \A i \in Tasks :
        pc[i] = "grace_read" =>
            /\ waited[i] = 0
            /\ read_timeout[i] = args.grace_time_check + 4

\* C13 amended: the start timestamp is taken before the greeting is read, so
\* the elapsed time line 140 subtracts is the time the greeting read took, and
\* the elapsed time of the vulnerable message includes it.
C13_ElapsedIncludesGreeting ==
    \A i \in Tasks :
        /\ pc[i] = "grace_read" =>
               /\ waited[i] = greeting[i].took
               /\ read_timeout[i] = args.grace_time_check - greeting[i].took + 4
        /\ (pc[i] = "lock" /\ grace_recv[i] \in {"data", "eof"}) =>
               \E k \in DOMAIN result_queue :
                   /\ result_queue[k].status = "vulnerable"
                   /\ result_queue[k].message.time_elapsed >= greeting[i].took

\* the greeting took a second to arrive and the read timeout has been set
C13_Witness ==
    \E i \in Tasks :
        /\ pc[i] = "grace_read"
        /\ greeting[i].took > 0
        /\ read_timeout[i] < args.grace_time_check + 4

\* C14 as stated: no read on a connection create_socket returned is cut off
\* by the connect timeout, neither the banner read nor the greeting read.
C14_ReadsNotCutOff ==
    \A i \in Tasks :
        /\ ~(banner_path[i] = "raised" /\ pc[i] = "classify" /\ banner[i] = sTimedOut)
        /\ greeting[i].kind # "timeout"

\* C14 amended: the connect timeout stays on the socket create_socket returns,
\* so the banner read and the greeting read are bounded by it.
C14_ConnectTimeoutBoundsReads ==
    \A i \in Tasks :
        /\ sock[i] = "open" => sock_timeout[i] = args.timeout
        /\ (gsock[i] = "open" /\ pc[i] = "grace_greeting") =>
               sock_timeout[i] = args.timeout
        /\ greeting[i].took <= args.timeout
        /\ greeting[i].kind \in {"data", "eof"} => greeting[i].took < args.timeout

\* the greeting read was cut off after the connect timeout
C14_Witness ==
    \E i \in Tasks :
        /\ greeting[i].kind = "timeout"
        /\ greeting[i].took = args.timeout
        /\ pc[i] = "raised"

\* C15: once get_ssh_banner has returned, by whichever way, the banner
\* connection is closed.
C15_BannerSocketClosed ==
    \A i \in Tasks :
        /\ banner_path[i] # "" => sock[i] = "closed"
        /\ sock[i] = "open" => pc[i] = "banner"

\* the fallback send raised and the connection is closed
C15_Witness ==
    \E i \in Tasks :
        /\ banner_path[i] = "raised"
        /\ banner[i] = sBrokenPipe
        /\ sock[i] = "closed"

\* C16: under fair scheduling every submitted task finishes and main leaves
\* the pool and the progress loop and prints the report.
C16_ScanEndsWithReport ==
    <>(/\ mainpc = "done"
       /\ summary.printed
       /\ \A i \in Tasks : Finished(i))

\* the sum of the bucket counts the summary prints
ReportedCount ==
    summary.not_vulnerable + summary.vulnerable + summary.unknown
    + summary.closed_ports
    + (IF summary.likely_shown THEN summary.likely_not_vulnerable ELSE 0)

\* how many tasks have put a result of the given status
TasksWith(status) == Cardinality({i \in Tasks : verdict[i] = status})

C18_NoSocketLeftOpen ==
    \A i \in Tasks :
        Finished(i) => sock[i] # "open" /\ gsock[i] # "open"

\* C19: for every positive grace time and every connect timeout, the timeout
\* line 140 computes after a greeting read that returned is strictly positive,
\* and so is the timeout the socket then has for the grace read.
C19_GraceReadTimeoutPositive ==
    \A i \in Tasks :
        /\ greeting[i].kind \in {"data", "eof"} =>
               grace_read_timeout(args.grace_time_check,
                                  elapsed_since_starttime(greeting[i].took)) > 0
        /\ pc[i] = "grace_read" => read_timeout[i] > 0

Digits == {"0", "1", "2", "3", "4", "5", "6", "7", "8", "9"}

DigitValue(c) ==
    CASE c = "0" -> 0 [] c = "1" -> 1 [] c = "2" -> 2 [] c = "3" -> 3
      [] c = "4" -> 4 [] c = "5" -> 5 [] c = "6" -> 6 [] c = "7" -> 7
      [] c = "8" -> 8 [] c = "9" -> 9

\* how many digits s begins with
RECURSIVE CountDigits(_)
CountDigits(s) ==
    IF s = <<>> \/ Head(s) \notin Digits THEN 0 ELSE 1 + CountDigits(Tail(s))

\* the number a text of digits denotes
RECURSIVE NumberOf(_)
NumberOf(s) ==
    IF s = <<>> THEN 0
    ELSE NumberOf(SubSeq(s, 1, Len(s) - 1)) * 10 + DigitValue(s[Len(s)])

\* the text of b after "SSH-2.0-OpenSSH_", or nothing when b does not begin so
AfterPrefix(b) ==
    IF Len(b) >= Len(sOpenSSH_) /\ SubSeq(b, 1, Len(sOpenSSH_)) = sOpenSSH_
    THEN SubSeq(b, Len(sOpenSSH_) + 1, Len(b))
    ELSE <<>>

\* the version of a banner "SSH-2.0-OpenSSH_<major>.<minor>...", or ok = FALSE
\* for a banner of another form
BannerVersion(b) ==
    LET rest == AfterPrefix(b)
        n == CountDigits(rest)
        tail == IF Len(rest) > n THEN SubSeq(rest, n + 2, Len(rest)) ELSE <<>>
        m == CountDigits(tail)
    IN  IF n >= 1 /\ Len(rest) > n /\ rest[n + 1] = "." /\ m >= 1
        THEN [ok |-> TRUE, major |-> NumberOf(SubSeq(rest, 1, n)),
              minor |-> NumberOf(SubSeq(tail, 1, m))]
        ELSE [ok |-> FALSE, major |-> 0, minor |-> 0]

\* the versions the table is meant to cover: 1.x to 4.4 and 8.5 to 9.7
InCoveredRange(v) ==
    \/ v.major \in 1..3
    \/ v.major = 4 /\ v.minor <= 4
    \/ v.major = 8 /\ v.minor >= 5
    \/ v.major = 9 /\ v.minor <= 7

\* C20: a banner "SSH-2.0-OpenSSH_<major>.<minor>..." whose version is outside
\* 1.x to 4.4 and 8.5 to 9.7 contains no entry of the vulnerable table, and the
\* task that read it reports not_vulnerable without a grace probe.
C20_OnlyCoveredVersionsFlagged ==
    \A i \in Tasks :
        (BannerVersion(banner[i]).ok /\ ~InCoveredRange(BannerVersion(banner[i]))) =>
            /\ ~AnyVulnerableVersionIn(banner[i])
            /\ pc[i] \notin {"grace_connect", "grace_greeting", "grace_read"}
            /\ pc[i] \in {"lock", "incr"} => verdict[i] = "not_vulnerable"

=============================================================================
